---- MODULE Spec2Model ----
(***************************************************************************)
(* A model of crates/agent/src/context_server_tool.rs: ContextServerTool,  *)
(* the adapter that presents one tool of a context (MCP) server as a Tool  *)
(* of the agent.  Modelled: needs_confirmation (the layered confirmation   *)
(* policy), input_schema (the schema accessor), and run (the lookup of the *)
(* server, the spawned task, the remote call and the normalisation of the  *)
(* reply's content parts).                                                 *)
(*                                                                         *)
(* Conventions.  An Option<T> is a sequence: None is <<>> and Some(x) is   *)
(* <<x>>.  A String is the sequence of its characters, each a one-letter   *)
(* string, so that concatenation, join and format! are computed and not    *)
(* assumed.  A HashMap is a function whose DOMAIN is the set of its keys.  *)
(***************************************************************************)
EXTENDS Integers, Sequences, FiniteSets, TLC

VARIABLES
    always_allow_tool_actions,  \* AssistantSettings::get_global(cx).always_allow_tool_actions
    context_servers,            \* SettingsStore: ProjectSettings.context_servers, server id -> zed_tool_confirmation
    confirmation_settings,      \* ContextServerStore: server id -> Option<ZedToolConfirmationSettings>
    confirmLog,                 \* history: answers of needs_confirmation under the current settings
    normLog,                    \* history: the last reply normalised and its result
    schemaLog,                  \* history: the last input_schema call and its result
    running,                    \* ContextServerStore: server id -> the running connection (0: none)
    client,                     \* connection -> whether ContextServer::client() is Some
    nextConn,                   \* the next connection to be created
    inv                         \* the invocations of run: position, captured handle, outcome

vars == <<always_allow_tool_actions, context_servers, confirmation_settings, confirmLog, normLog,
          schemaLog, running, client, nextConn, inv>>

None == <<>>
Some(x) == <<x>>
IsSome(o) == o # <<>>
Unwrap(o) == o[1]

\* Option::unwrap_or
unwrap_or(o, d) == IF o = None THEN d ELSE o[1]

(***************************************************************************)
(* The adapters: ContextServerTool { store, server_id, tool }.             *)
(***************************************************************************)
ServerIds == {"s1", "s2"}
ToolNames == {"my_tool_name", "another_tool_name"}

\* types::Tool { name, description, input_schema }; the description is a
\* display string no operation modelled here reads.
Tool(name, input_schema) == [name |-> name, input_schema |-> input_schema]

\* ContextServerTool::new(store, server_id, tool); the store is the one
\* ContextServerStore of the model.
ContextServerTool(server_id, tool) == [server_id |-> server_id, tool |-> tool]

\* mcp_tool(name) of the tests: input_schema is {"type": "object"}
mcp_tool(name) ==
    Tool(name, [t |-> "Object", map |-> [k \in {"type"} |-> [t |-> "String", s |-> "object"]]])

Adapters == {ContextServerTool(s, mcp_tool(n)) : s \in ServerIds, n \in ToolNames}

(***************************************************************************)
(* needs_confirmation.                                                     *)
(***************************************************************************)
\* ZedToolConfirmationSettings { default_needs_confirmation: Option<bool>, tools: HashMap<String, bool> }
ZedToolConfirmationSettings ==
    { [default_needs_confirmation |-> d, tools |-> t] :
        d \in {None, Some(TRUE), Some(FALSE)},
        t \in UNION { [D -> BOOLEAN] : D \in SUBSET ToolNames } }

\* ContextServerStore::get_confirmation_settings(&server_id): the record configured
\* for that server, or None.
get_confirmation_settings(store, server_id) == store[server_id]

\* ContextServerStore::available_context_servers_changed, its work done: the
\* store holds the servers of the project settings, each with the
\* zed_tool_confirmation of its configuration, and no other server.
available_context_servers_changed(settings) ==
    [s \in ServerIds |-> IF s \in DOMAIN settings THEN settings[s] ELSE None]

\* needs_confirmation without its first step: the global flag is not read.
needs_confirmation_global_ignored(self, global_allow, store) ==
    LET confirmation_settings_opt == get_confirmation_settings(store, self.server_id) IN
    IF IsSome(confirmation_settings_opt)
    THEN LET cs == Unwrap(confirmation_settings_opt) IN
         IF self.tool.name \in DOMAIN cs.tools
         THEN cs.tools[self.tool.name]
         ELSE unwrap_or(cs.default_needs_confirmation, TRUE)
    ELSE TRUE

\* needs_confirmation with its two inner steps exchanged: a set server default
\* is returned before the override for the tool is looked up.
needs_confirmation_default_first(self, global_allow, store) ==
    IF global_allow THEN FALSE
    ELSE
    LET confirmation_settings_opt == get_confirmation_settings(store, self.server_id) IN
    IF IsSome(confirmation_settings_opt)
    THEN LET cs == Unwrap(confirmation_settings_opt) IN
         IF IsSome(cs.default_needs_confirmation)
         THEN Unwrap(cs.default_needs_confirmation)
         ELSE IF self.tool.name \in DOMAIN cs.tools
              THEN cs.tools[self.tool.name]
              ELSE TRUE
    ELSE TRUE

\* ContextServerTool::needs_confirmation: the global flag, then the override for
\* this tool's name, then the server default (true when unset), then true.
needs_confirmation(self, global_allow, store) ==
    IF global_allow THEN FALSE
    ELSE
    LET confirmation_settings_opt == get_confirmation_settings(store, self.server_id) IN
    IF IsSome(confirmation_settings_opt)
    THEN LET cs == Unwrap(confirmation_settings_opt) IN
         IF self.tool.name \in DOMAIN cs.tools
         THEN cs.tools[self.tool.name]
         ELSE unwrap_or(cs.default_needs_confirmation, TRUE)
    ELSE TRUE

(***************************************************************************)
(* The reply of a tool call: types::ToolResponseContent, and its           *)
(* normalisation into one ToolResultContent (run, the body of the task).   *)
(***************************************************************************)
Text(text) == [type |-> "Text", text |-> text]
Image(data, mime_type) == [type |-> "Image", data |-> data, mime_type |-> mime_type]
Resource == [type |-> "Resource"]

\* "image/png"
ImagePng == <<"i", "m", "a", "g", "e", "/", "p", "n", "g">>
ImageJpeg == <<"i", "m", "a", "g", "e", "/", "j", "p", "e", "g">>
ImagePngUpper == <<"I", "M", "A", "G", "E", "/", "P", "N", "G">>

\* "\n"
Newline == <<"\n">>

\* The placeholder line without the MIME type.
placeholder_no_mime(mime_type) ==
    <<"T", "o", "o", "l", " ", "r", "e", "t", "u", "r", "n", "e", "d", " ", "a", "n", " ",
      "i", "m", "a", "g", "e", " ", "(", "c", "o", "n", "t", "e", "n", "t", " ", "n", "o", "t",
      " ", "d", "i", "s", "p", "l", "a", "y", "e", "d", " ", "i", "n", " ", "t", "h", "i", "s",
      " ", "v", "i", "e", "w", ")">>

\* format!("Tool returned an image of type {} (content not displayed in this view)", mime_type)
placeholder(mime_type) ==
    <<"T", "o", "o", "l", " ", "r", "e", "t", "u", "r", "n", "e", "d", " ", "a", "n", " ",
      "i", "m", "a", "g", "e", " ", "o", "f", " ", "t", "y", "p", "e", " ">>
    \o mime_type
    \o <<" ", "(", "c", "o", "n", "t", "e", "n", "t", " ", "n", "o", "t", " ", "d", "i", "s",
         "p", "l", "a", "y", "e", "d", " ", "i", "n", " ", "t", "h", "i", "s", " ", "v", "i",
         "e", "w", ")">>

\* LanguageModelImage { source: data.into(), size: Size::default() }
LanguageModelImage(data) == [source |-> data, size |-> [width |-> 0, height |-> 0]]

\* A join that leaves the separator out.
RECURSIVE join_no_sep(_, _)
join_no_sep(parts, sep) ==
    IF parts = <<>> THEN <<>> ELSE Head(parts) \o join_no_sep(Tail(parts), sep)

\* [String]::join(sep)
RECURSIVE join(_, _)
join(parts, sep) ==
    IF parts = <<>> THEN <<>>
    ELSE IF Len(parts) = 1 THEN parts[1]
    ELSE parts[1] \o sep \o join(Tail(parts), sep)

\* The loop without the captured_image.is_none() test: a later PNG image
\* replaces the one captured.
RECURSIVE loop_last_png(_, _, _, _)
loop_last_png(content, i, captured_image, text_parts) ==
    IF i > Len(content)
    THEN [captured_image |-> captured_image, text_parts |-> text_parts]
    ELSE LET content_part == content[i] IN
         CASE content_part.type = "Text" ->
                loop_last_png(content, i + 1, captured_image,
                              Append(text_parts, content_part.text))
           [] content_part.type = "Image" ->
                IF content_part.mime_type = ImagePng
                THEN loop_last_png(content, i + 1,
                                   Some(LanguageModelImage(content_part.data)), text_parts)
                ELSE loop_last_png(content, i + 1, captured_image,
                                   Append(text_parts, placeholder(content_part.mime_type)))
           [] content_part.type = "Resource" ->
                loop_last_png(content, i + 1, captured_image, text_parts)

\* `for content_part in response.content` from part i on, with the two
\* accumulators captured_image and text_parts.
RECURSIVE response_content_loop(_, _, _, _)
response_content_loop(content, i, captured_image, text_parts) ==
    IF i > Len(content)
    THEN [captured_image |-> captured_image, text_parts |-> text_parts]
    ELSE LET content_part == content[i] IN
         CASE content_part.type = "Text" ->
                response_content_loop(content, i + 1, captured_image,
                                      Append(text_parts, content_part.text))
           [] content_part.type = "Image" ->
                IF content_part.mime_type = ImagePng
                THEN IF captured_image = None
                     THEN response_content_loop(content, i + 1,
                              Some(LanguageModelImage(content_part.data)), text_parts)
                     ELSE \* log::warn!: only the first image is processed
                          response_content_loop(content, i + 1, captured_image, text_parts)
                ELSE \* log::warn!: non-PNG image, represented as text
                     response_content_loop(content, i + 1, captured_image,
                              Append(text_parts, placeholder(content_part.mime_type)))
           [] content_part.type = "Resource" ->
                \* log::warn!: resource content is ignored
                response_content_loop(content, i + 1, captured_image, text_parts)

\* LmToolResultContent: Image(image) if one was captured, else Text(text_parts.join("\n"))
intermediate_lm_content(content) ==
    LET acc == response_content_loop(content, 1, None, <<>>) IN
    IF IsSome(acc.captured_image)
    THEN [type |-> "Image", image |-> Unwrap(acc.captured_image)]
    ELSE [type |-> "Text", text |-> join(acc.text_parts, Newline)]

\* AssistantToolResultContent, by the match on intermediate_lm_content; the
\* WrappedText arm is never taken, as the value built above is Text or Image.
final_assistant_tool_content(content) ==
    LET lm == intermediate_lm_content(content) IN
    CASE lm.type = "Text" -> [type |-> "Text", text |-> lm.text]
      [] lm.type = "Image" -> [type |-> "Image", image |-> lm.image]
      [] lm.type = "WrappedText" -> [type |-> "Text", text |-> lm.text]

\* ToolResultOutput { content, output: None }
ToolResultOutput(content) == [content |-> content, output |-> None]

(***************************************************************************)
(* input_schema.                                                           *)
(***************************************************************************)
\* serde_json::Value
JsonNull == [t |-> "Null"]
JsonBool(b) == [t |-> "Bool", b |-> b]
JsonString(str) == [t |-> "String", s |-> str]
JsonArray(items) == [t |-> "Array", items |-> items]
JsonObject(map) == [t |-> "Object", map |-> map]

Ok(v) == [ok |-> TRUE, value |-> v]
Err(e) == [ok |-> FALSE, error |-> e]

\* LanguageModelToolSchemaFormat
SchemaFormats == {"JsonSchema", "JsonSchemaSubset"}

\* The value a declared schema holds under each key.
SchemaKeys == {"type", "properties", "required", "description", "oneOf", "$ref"}
SchemaValue(k) ==
    CASE k = "type" -> JsonString("object")
      [] k = "properties" -> JsonObject(<<>>)
      [] k = "required" -> JsonArray(<<>>)
      [] k = "description" -> JsonString("d")
      [] k = "oneOf" -> JsonArray(<<JsonBool(TRUE)>>)
      [] k = "anyOf" -> JsonArray(<<JsonBool(TRUE)>>)
      [] k = "$ref" -> JsonString("#")

\* The schemas a tool declares: null, true, and the objects over SchemaKeys
\* (the empty object among them).
DeclaredSchemas ==
    {JsonNull, JsonBool(TRUE)}
    \cup { JsonObject([k \in D |-> SchemaValue(k)]) : D \in SUBSET SchemaKeys }

\* assistant_tool::adapt_schema_to_format(&mut schema, format): the schema in
\* the requested format, unchanged in structure, or the failure to convert it.
\* JsonSchema takes every schema as it is; JsonSchemaSubset has no "$ref" and
\* writes "oneOf" as "anyOf".
adapt_schema_to_format(schema, format) ==
    IF format = "JsonSchema" \/ schema.t # "Object" THEN Ok(schema)
    ELSE IF "$ref" \in DOMAIN schema.map THEN Err("SchemaAdaptationFailed")
    ELSE LET keys == { IF k = "oneOf" THEN "anyOf" ELSE k : k \in DOMAIN schema.map } IN
         Ok(JsonObject([k \in keys |-> SchemaValue(k)]))

\* serde_json::json!({ "type": "object", "properties": [] })
CanonicalSchema ==
    JsonObject([k \in {"type", "properties"} |->
                   IF k = "type" THEN JsonString("object") ELSE JsonArray(<<>>)])

\* input_schema without the arm for the empty object.
input_schema_null_only(self, format) ==
    LET adapted == adapt_schema_to_format(self.tool.input_schema, format) IN
    IF ~adapted.ok THEN adapted
    ELSE LET schema == adapted.value IN
         Ok(IF schema.t = "Null" THEN CanonicalSchema ELSE schema)

\* ContextServerTool::input_schema: the declared schema is adapted first (`?`
\* returns its failure), and the adapted value is matched.
input_schema(self, format) ==
    LET adapted == adapt_schema_to_format(self.tool.input_schema, format) IN
    IF ~adapted.ok THEN adapted
    ELSE LET schema == adapted.value IN
         Ok(CASE schema.t = "Null" -> CanonicalSchema
              [] schema.t = "Object" /\ DOMAIN schema.map = {} -> CanonicalSchema
              [] OTHER -> schema)

(***************************************************************************)
(* run: the lookup of the running server, the spawned task, the remote     *)
(* call and the result.                                                    *)
(***************************************************************************)
MaxInvocations == 2
MaxConnections == 2
MaxReplyParts == 2

Invocations == 1..MaxInvocations
Connections == 1..MaxConnections

\* The adapters invoked: one tool on each server.
RunAdapters ==
    {ContextServerTool("s1", mcp_tool("my_tool_name")),
     ContextServerTool("s2", mcp_tool("another_tool_name"))}

\* The inputs of run: an object and a value that is no object.
RunInputs == {[t |-> "Object", map |-> <<>>], [t |-> "Null"]}

\* The replies of the remote call: up to MaxReplyParts parts.
RunParts ==
    {Text(<<"a">>), Image(<<"A">>, ImagePng), Image(<<"B">>, ImageJpeg), Resource}
RunReplies == UNION { [1..n -> RunParts] : n \in 0..MaxReplyParts }

\* The failures of the remote call: of the remote side and of the transport.
RemoteErrors == {"tool execution failed", "transport closed"}

\* ContextServerStore::get_running_server(&server_id): the connection running
\* for that server id at this moment, or None.
get_running_server(store, server_id) ==
    IF store[server_id] = 0 THEN None ELSE Some(store[server_id])

\* ContextServer::client(): the protocol client of an initialized connection,
\* or None while the connection has not completed its initialization.
client_of(clients, server) == IF clients[server] THEN Some(server) ELSE None

\* An invocation not issued yet.  pc is the position of the invocation; adapter,
\* input, server (the handle captured) and protocol (the client in use) are what
\* the task holds; ready says the returned task was Task::ready; call is the
\* request of run_tool awaiting its response, dispatches the number of requests
\* sent; result is the task's output.  History, written by the actions only:
\* at_call, the connection the registry held for the adapter's server when run
\* was called (0: none); client_at_call, whether that connection had a client
\* then; client_at_poll, whether the handle had a client when the task was
\* first polled; response, what run_tool returned.
IdleInvocation ==
    [pc |-> "idle", adapter |-> None, input |-> None, server |-> None, ready |-> FALSE,
     protocol |-> None, call |-> None, dispatches |-> 0, result |-> None,
     at_call |-> 0, client_at_call |-> None, client_at_poll |-> None, response |-> None]

\* `if let serde_json::Value::Object(map) = input_clone { Some(..) } else { None }`
arguments_of(input) == IF input.t = "Object" THEN Some(input.map) ELSE None

\* run whose else branch returns the error of the other failure.
run_not_found_as_not_initialized(self, input, store) ==
    LET server == get_running_server(store, self.server_id) IN
    IF IsSome(server)
    THEN [IdleInvocation EXCEPT !.pc = "spawned", !.adapter = Some(self),
                                !.input = Some(input), !.server = server]
    ELSE [IdleInvocation EXCEPT !.pc = "failed", !.adapter = Some(self), !.ready = TRUE,
                                !.result = Some(Err("Context server not initialized"))]

\* run with the handle kept between calls: the handle an earlier invocation of
\* the same adapter obtained is used again, and the registry is asked only when
\* there is none.
run_cached_handle(self, input, store) ==
    LET earlier == {inv[j].server : j \in {k \in DOMAIN inv :
                        inv[k].adapter = Some(self) /\ IsSome(inv[k].server)}}
        server == IF earlier # {} THEN CHOOSE h \in earlier : TRUE
                  ELSE get_running_server(store, self.server_id)
    IN
    IF IsSome(server)
    THEN [IdleInvocation EXCEPT !.pc = "spawned", !.adapter = Some(self),
                                !.input = Some(input), !.server = server]
    ELSE [IdleInvocation EXCEPT !.pc = "failed", !.adapter = Some(self), !.ready = TRUE,
                                !.result = Some(Err("Context server not found"))]

\* ContextServerTool::run up to its return: with a running server the task is
\* spawned holding the server handle, the tool name and the input; with none
\* the returned task is ready with the error.
run(self, input, store) ==
    LET server == get_running_server(store, self.server_id) IN
    IF IsSome(server)
    THEN [IdleInvocation EXCEPT !.pc = "spawned", !.adapter = Some(self),
                                !.input = Some(input), !.server = server]
    ELSE [IdleInvocation EXCEPT !.pc = "failed", !.adapter = Some(self), !.ready = TRUE,
                                !.result = Some(Err("Context server not found"))]

\* The start of the task without the client() test: the call is sent on the
\* handle whatever its state.
task_start_dispatch_always(task, clients) ==
    [task EXCEPT !.pc = "dispatched", !.protocol = Some(task.server[1]), !.input = None,
                 !.call = Some([connection |-> task.server[1],
                                tool_name |-> task.adapter[1].tool.name,
                                arguments |-> arguments_of(task.input[1])]),
                 !.dispatches = @ + 1]

\* The task from its first poll to the await: client() of the handle it holds,
\* bail! when there is none, else the arguments and the call of run_tool.
task_start(task, clients) ==
    LET protocol == client_of(clients, task.server[1]) IN
    IF protocol = None
    THEN [task EXCEPT !.pc = "failed", !.input = None,
                      !.result = Some(Err("Context server not initialized"))]
    ELSE [task EXCEPT !.pc = "dispatched", !.protocol = protocol, !.input = None,
                      !.call = Some([connection |-> protocol[1],
                                     tool_name |-> task.adapter[1].tool.name,
                                     arguments |-> arguments_of(task.input[1])]),
                      !.dispatches = @ + 1]

\* The end of the task with the failure of run_tool swallowed: an empty text
\* is returned in its place.
task_resume_error_as_text(task, response) ==
    IF ~response.ok
    THEN [task EXCEPT !.pc = "succeeded", !.call = None,
                      !.result = Some(Ok(ToolResultOutput([type |-> "Text", text |-> <<>>])))]
    ELSE [task EXCEPT !.pc = "succeeded", !.call = None,
                      !.result = Some(Ok(ToolResultOutput(
                                     final_assistant_tool_content(response.value))))]

\* The end of the task with a reply holding a Resource part rejected.
task_resume_reject_resource(task, response) ==
    IF ~response.ok
    THEN [task EXCEPT !.pc = "failed", !.call = None,
                      !.result = Some(response)]
    ELSE IF \E k \in 1..Len(response.value) : response.value[k].type = "Resource"
    THEN [task EXCEPT !.pc = "failed", !.call = None,
                      !.result = Some(Err("unsupported content"))]
    ELSE [task EXCEPT !.pc = "succeeded", !.call = None,
                      !.result = Some(Ok(ToolResultOutput(
                                     final_assistant_tool_content(response.value))))]

\* The end of the task with one retry: after a first failure of run_tool the
\* call is sent again and awaited.
task_resume_retry_once(task, response) ==
    IF ~response.ok /\ task.dispatches < 2
    THEN [task EXCEPT !.dispatches = @ + 1]
    ELSE IF ~response.ok
    THEN [task EXCEPT !.pc = "failed", !.call = None, !.result = Some(response)]
    ELSE [task EXCEPT !.pc = "succeeded", !.call = None,
                      !.result = Some(Ok(ToolResultOutput(
                                     final_assistant_tool_content(response.value))))]

\* The task from the await on: `?` returns the failure of run_tool as it is;
\* a reply's content is normalised and returned in the result envelope.
task_resume(task, response) ==
    IF ~response.ok
    THEN [task EXCEPT !.pc = "failed", !.call = None,
                      !.result = Some(response)]
    ELSE [task EXCEPT !.pc = "succeeded", !.call = None,
                      !.result = Some(Ok(ToolResultOutput(
                                     final_assistant_tool_content(response.value))))]

InitRun ==
    /\ running = [s \in ServerIds |-> 0]
    /\ client = [c \in Connections |-> FALSE]
    /\ nextConn = 1
    /\ inv = [i \in Invocations |-> IdleInvocation]

\* init_test_app_settings: the default settings (no global override, no context
\* server), and a store with no server.
InitSettings ==
    /\ always_allow_tool_actions = FALSE
    /\ context_servers = [s \in {} |-> None]
    /\ confirmation_settings = [s \in ServerIds |-> None]
    /\ confirmLog = [a \in Adapters |-> None]

NoReply == [content |-> <<>>, result |-> None]
NoSchemaCall == [declared |-> [t |-> "Null"], format |-> "JsonSchema", result |-> None]

InitLogs ==
    /\ normLog = NoReply
    /\ schemaLog = NoSchemaCall

(***************************************************************************)
(* The confirmation check under changing settings.                         *)
(***************************************************************************)
\* AssistantSettings::override_global: the global flag is set.
SetAlwaysAllow(b) ==
    /\ b # always_allow_tool_actions
    /\ always_allow_tool_actions' = b
    /\ confirmLog' = [a \in Adapters |-> None]
    /\ UNCHANGED <<context_servers, confirmation_settings, normLog, schemaLog, running, client,
                   nextConn, inv>>

\* setup_environment(cx, s, p), the whole call: the project settings written
\* hold one map with the single entry s, whose zed_tool_confirmation is p; a new
\* ContextServerStore is created and told by available_context_servers_changed,
\* and cx.run_until_parked() completes that refresh before the store is
\* returned, so the store returned answers with the settings written.
SetupEnvironment(s, p) ==
    /\ context_servers' = [x \in {s} |-> p]
    /\ confirmation_settings' = available_context_servers_changed(context_servers')
    /\ confirmLog' = [a \in Adapters |-> None]
    /\ UNCHANGED <<always_allow_tool_actions, normLog, schemaLog, running, client, nextConn,
                   inv>>

\* ContextServerTool::new on the store of the current setup, then
\* tool.needs_confirmation(&input, cx) on that adapter a; the answer is logged.
NeedsConfirmation(a) ==
    /\ confirmLog' = [confirmLog EXCEPT ![a] =
           Some(needs_confirmation(a, always_allow_tool_actions, confirmation_settings))]
    /\ UNCHANGED <<always_allow_tool_actions, context_servers, confirmation_settings, normLog,
                   schemaLog, running, client, nextConn, inv>>

InitPolicy ==
    /\ InitSettings
    /\ InitLogs
    /\ InitRun

NextPolicy ==
    \/ \E b \in BOOLEAN : SetAlwaysAllow(b)
    \/ \E s \in ServerIds :
         \E p \in {None} \cup {Some(q) : q \in ZedToolConfirmationSettings} :
           SetupEnvironment(s, p)
    \/ \E a \in Adapters : NeedsConfirmation(a)

SpecPolicy == InitPolicy /\ [][NextPolicy]_vars

(***************************************************************************)
(* The normaliser on every reply of up to MaxParts parts.                  *)
(***************************************************************************)
MaxParts == 3

Texts == {<<>>, <<"a">>, <<"b">>}
ImageData == {<<"A">>, <<"B">>}
MimeTypes == {ImagePng, ImageJpeg, ImagePngUpper}

ToolResponseContent ==
    {Text(x) : x \in Texts}
    \cup {Image(d, m) : d \in ImageData, m \in MimeTypes}
    \cup {Resource}

Replies == UNION { [1..n -> ToolResponseContent] : n \in 0..MaxParts }

\* The body of the task from the reply on: response.content is normalised.
Normalize ==
    /\ normLog.result = None
    /\ normLog' = [normLog EXCEPT !.result =
           Some(ToolResultOutput(final_assistant_tool_content(normLog.content)))]
    /\ UNCHANGED <<always_allow_tool_actions, context_servers, confirmation_settings, confirmLog, schemaLog,
                   running, client, nextConn, inv>>

InitNormalize ==
    /\ normLog \in {[content |-> c, result |-> None] : c \in Replies}
    /\ schemaLog = NoSchemaCall
    /\ InitSettings
    /\ InitRun

NextNormalize == Normalize

SpecNormalize == InitNormalize /\ [][NextNormalize]_vars

(***************************************************************************)
(* The schema accessor on every declared schema and format.                *)
(***************************************************************************)
\* tool.input_schema(format) on an adapter whose tool declares schemaLog.declared.
InputSchema ==
    /\ schemaLog.result = None
    /\ schemaLog' = [schemaLog EXCEPT !.result =
           Some(input_schema(ContextServerTool("s1", Tool("my_tool_name", schemaLog.declared)),
                             schemaLog.format))]
    /\ UNCHANGED <<always_allow_tool_actions, context_servers, confirmation_settings, confirmLog, normLog,
                   running, client, nextConn, inv>>

InitSchema ==
    /\ schemaLog \in {[declared |-> d, format |-> f, result |-> None] :
                         d \in DeclaredSchemas, f \in SchemaFormats}
    /\ normLog = NoReply
    /\ InitSettings
    /\ InitRun

NextSchema == InputSchema

SpecSchema == InitSchema /\ [][NextSchema]_vars

(***************************************************************************)
(* The invocations of run against a registry whose servers come and go.    *)
(***************************************************************************)
\* A connection for server s appears in the registry, initialized or not yet.
ServerStarts(s, initialized) ==
    /\ running[s] = 0
    /\ nextConn <= MaxConnections
    /\ running' = [running EXCEPT ![s] = nextConn]
    /\ client' = [client EXCEPT ![nextConn] = initialized]
    /\ nextConn' = nextConn + 1
    /\ UNCHANGED <<always_allow_tool_actions, context_servers, confirmation_settings, confirmLog, normLog,
                   schemaLog, inv>>

\* The running connection of server s completes its initialization.
ServerInitialized(s) ==
    /\ running[s] # 0
    /\ ~client[running[s]]
    /\ client' = [client EXCEPT ![running[s]] = TRUE]
    /\ UNCHANGED <<always_allow_tool_actions, context_servers, confirmation_settings, confirmLog, normLog,
                   schemaLog, running, nextConn, inv>>

\* The connection of server s is stopped: it leaves the registry and has no
\* client any more.
ServerStops(s) ==
    /\ running[s] # 0
    /\ running' = [running EXCEPT ![s] = 0]
    /\ client' = [client EXCEPT ![running[s]] = FALSE]
    /\ UNCHANGED <<always_allow_tool_actions, context_servers, confirmation_settings, confirmLog, normLog,
                   schemaLog, nextConn, inv>>

\* tool.run(input, ..) is called on adapter a as invocation i.
Run(i, a, input) ==
    /\ inv[i].pc = "idle"
    /\ inv' = [inv EXCEPT ![i] = [run(a, input, running) EXCEPT
                                     !.at_call = running[a.server_id],
                                     !.client_at_call =
                                         IF running[a.server_id] = 0 THEN None
                                         ELSE Some(client[running[a.server_id]])]]
    /\ UNCHANGED <<always_allow_tool_actions, context_servers, confirmation_settings, confirmLog, normLog,
                   schemaLog, running, client, nextConn>>

\* The executor polls the spawned task of invocation i for the first time.
TaskStart(i) ==
    /\ inv[i].pc = "spawned"
    /\ inv' = [inv EXCEPT ![i] = [task_start(inv[i], client) EXCEPT
                                     !.client_at_poll = Some(client[inv[i].server[1]])]]
    /\ UNCHANGED <<always_allow_tool_actions, context_servers, confirmation_settings, confirmLog, normLog,
                   schemaLog, running, client, nextConn>>

\* run_tool of invocation i returns `response`, a reply or a failure, and the
\* task runs to its end.
TaskResume(i, response) ==
    /\ inv[i].pc = "dispatched"
    /\ inv' = [inv EXCEPT ![i] = [task_resume(inv[i], response) EXCEPT
                                     !.response = Some(response)]]
    /\ UNCHANGED <<always_allow_tool_actions, context_servers, confirmation_settings, confirmLog, normLog,
                   schemaLog, running, client, nextConn>>

Init == InitSettings /\ InitLogs /\ InitRun

Next ==
    \/ \E s \in ServerIds : \E initialized \in BOOLEAN : ServerStarts(s, initialized)
    \/ \E s \in ServerIds : ServerInitialized(s)
    \/ \E s \in ServerIds : ServerStops(s)
    \/ \E i \in Invocations : \E a \in RunAdapters : \E input \in RunInputs : Run(i, a, input)
    \/ \E i \in Invocations : TaskStart(i)
    \/ \E i \in Invocations :
         \E response \in {Ok(c) : c \in RunReplies} \cup {Err(e) : e \in RemoteErrors} :
           TaskResume(i, response)

Spec == Init /\ [][Next]_vars


(***************************************************************************)
(* Properties of needs_confirmation (SpecPolicy).                          *)
(***************************************************************************)
\* C1: every answer of needs_confirmation is the one the four-step precedence
\* table gives for the settings it was asked under: false when the global flag
\* is set, whatever the rest; otherwise the override for the tool's name when
\* the server has a record with one; otherwise the record's default, or true
\* when the default is unset; otherwise (no record) true.
C1_PrecedenceTable ==
    \A a \in Adapters :
        IsSome(confirmLog[a]) =>
            LET r == confirmLog[a][1]
                g == always_allow_tool_actions
                p == confirmation_settings[a.server_id]
                n == a.tool.name
            IN  /\ g => r = FALSE
                /\ (~g /\ p # None /\ n \in DOMAIN p[1].tools) => r = p[1].tools[n]
                /\ (~g /\ p # None /\ n \notin DOMAIN p[1].tools
                       /\ p[1].default_needs_confirmation = Some(TRUE)) => r = TRUE
                /\ (~g /\ p # None /\ n \notin DOMAIN p[1].tools
                       /\ p[1].default_needs_confirmation = Some(FALSE)) => r = FALSE
                /\ (~g /\ p # None /\ n \notin DOMAIN p[1].tools
                       /\ p[1].default_needs_confirmation = None) => r = TRUE
                /\ (~g /\ p = None) => r = TRUE

\* The global flag is set while the server's record asks for confirmation both
\* by default and for this tool, and the answer is false.
C1_Witness ==
    \E a \in Adapters :
        /\ always_allow_tool_actions
        /\ confirmation_settings[a.server_id] # None
        /\ confirmation_settings[a.server_id][1].default_needs_confirmation = Some(TRUE)
        /\ a.tool.name \in DOMAIN confirmation_settings[a.server_id][1].tools
        /\ confirmation_settings[a.server_id][1].tools[a.tool.name]
        /\ confirmLog[a] = Some(FALSE)

\* C2: with the global flag unset and a record present whose default is set, the
\* override for tool T is the answer for T, against the default in both
\* directions, and the answer for a tool of the same server with no override
\* entry is the server default, whatever overrides other tools have.
C2_OverrideWinsForItsToolOnly ==
    \A a \in Adapters, b \in Adapters :
        LET p == confirmation_settings[a.server_id] IN
        (/\ ~always_allow_tool_actions
         /\ a.server_id = b.server_id
         /\ p # None
         /\ IsSome(p[1].default_needs_confirmation)
         /\ a.tool.name \in DOMAIN p[1].tools
         /\ b.tool.name \notin DOMAIN p[1].tools)
        => /\ IsSome(confirmLog[a]) => confirmLog[a][1] = p[1].tools[a.tool.name]
           /\ IsSome(confirmLog[b]) => confirmLog[b][1] = p[1].default_needs_confirmation[1]

\* Default true, override false for one tool, no entry for the other tool of
\* the server: the first is answered false and the second true.
C2_Witness ==
    \E a \in Adapters, b \in Adapters :
        LET p == confirmation_settings[a.server_id] IN
        /\ ~always_allow_tool_actions
        /\ a.server_id = b.server_id
        /\ p # None
        /\ p[1].default_needs_confirmation = Some(TRUE)
        /\ DOMAIN p[1].tools = {a.tool.name}
        /\ p[1].tools[a.tool.name] = FALSE
        /\ b.tool.name # a.tool.name
        /\ confirmLog[a] = Some(FALSE)
        /\ confirmLog[b] = Some(TRUE)

(***************************************************************************)
(* Properties of the normaliser (SpecNormalize).                           *)
(***************************************************************************)
Min(S) == CHOOSE x \in S : \A y \in S : x <= y

\* The positions of the image parts whose MIME type is exactly image/png.
PngPositions(c) == {i \in 1..Len(c) : c[i].type = "Image" /\ c[i].mime_type = ImagePng}

\* The positions of the image parts of any other MIME type.
NonPngPositions(c) == {i \in 1..Len(c) : c[i].type = "Image" /\ c[i].mime_type # ImagePng}

\* The positions of the parts that give a line of text.
LinePositions(c) == {i \in 1..Len(c) : c[i].type = "Text"} \cup NonPngPositions(c)

\* The k-th smallest element of S.
Nth(S, k) == CHOOSE i \in S : Cardinality({j \in S : j < i}) = k - 1

\* The k-th line expected of reply c.
ExpectedLine(c, k) ==
    LET part == c[Nth(LinePositions(c), k)] IN
    IF part.type = "Text" THEN part.text ELSE placeholder(part.mime_type)

\* Where the k-th expected line starts in the joined text.
RECURSIVE LineStart(_, _)
LineStart(c, k) ==
    IF k = 1 THEN 1 ELSE LineStart(c, k - 1) + Len(ExpectedLine(c, k - 1)) + 1

\* s[a..b] is a whole line of s: bounded by the ends of s or by newlines, with
\* no newline inside.
IsLine(s, a, b) ==
    /\ a = 1 \/ s[a - 1] = "\n"
    /\ b = Len(s) \/ s[b + 1] = "\n"
    /\ \A j \in a..b : s[j] # "\n"

\* w occurs in s within a..b.
OccursIn(w, s, a, b) ==
    \E o \in a..(b - Len(w) + 1) : SubSeq(s, o, o + Len(w) - 1) = w

\* Some whole line of s holds the MIME type m.
HasLineNaming(s, m) ==
    \E a \in 1..Len(s) : \E b \in a..Len(s) : IsLine(s, a, b) /\ OccursIn(m, s, a, b)

\* C3: the result is Image exactly when the reply has a part of MIME type
\* exactly image/png, and then it is the first such part; with no such part
\* the result is Text, even the empty text.
C3_FirstPngOrText ==
    IsSome(normLog.result) =>
        LET c == normLog.content
            r == normLog.result[1].content
            pngs == PngPositions(c)
        IN  /\ r.type = "Image" <=> pngs # {}
            /\ pngs # {} => r.image = [source |-> c[Min(pngs)].data,
                                       size |-> [width |-> 0, height |-> 0]]
            /\ pngs = {} => r.type = "Text"

\* A reply whose second and third parts are PNG images with different data,
\* after a non-PNG image: the result is the second part.
C3_Witness ==
    /\ IsSome(normLog.result)
    /\ Len(normLog.content) = 3
    /\ normLog.content[1].type = "Image" /\ normLog.content[1].mime_type # ImagePng
    /\ PngPositions(normLog.content) = {2, 3}
    /\ normLog.content[2].data # normLog.content[3].data
    /\ normLog.result[1].content.type = "Image"
    /\ normLog.result[1].content.image.source = normLog.content[2].data

\* C4: a Text result is the join with newlines, in the order of the parts, of
\* each Text part's string and each non-PNG image's placeholder line; Resource
\* parts give nothing, and the empty reply gives the empty text.
C4_TextIsJoinOfLines ==
    (IsSome(normLog.result) /\ normLog.result[1].content.type = "Text") =>
        LET c == normLog.content
            text == normLog.result[1].content.text
            n == Cardinality(LinePositions(c))
        IN  /\ Len(text) = IF n = 0 THEN 0 ELSE LineStart(c, n) + Len(ExpectedLine(c, n)) - 1
            /\ \A k \in 1..n :
                 /\ SubSeq(text, LineStart(c, k), LineStart(c, k) + Len(ExpectedLine(c, k)) - 1)
                        = ExpectedLine(c, k)
                 /\ k > 1 => text[LineStart(c, k) - 1] = "\n"
            /\ c = <<>> => normLog.result[1] = [content |-> [type |-> "Text", text |-> <<>>],
                                                output |-> None]

\* A Text part, a Resource and a non-PNG image: two lines, the text and the
\* placeholder, with one newline between them.
C4_Witness ==
    /\ IsSome(normLog.result)
    /\ Len(normLog.content) = 3
    /\ normLog.content[1] = Text(<<"a">>)
    /\ normLog.content[2] = Resource
    /\ normLog.content[3].type = "Image" /\ normLog.content[3].mime_type = ImageJpeg
    /\ normLog.result[1].content.type = "Text"
    /\ normLog.result[1].content.text = <<"a", "\n">> \o placeholder(ImageJpeg)

\* C5 as claimed: for every non-PNG image of the reply, whatever the other
\* parts, the result is a text with a line naming that image's MIME type.
C5_PlaceholderAlwaysDelivered ==
    IsSome(normLog.result) =>
        \A i \in NonPngPositions(normLog.content) :
            /\ normLog.result[1].content.type = "Text"
            /\ HasLineNaming(normLog.result[1].content.text, normLog.content[i].mime_type)

\* C5 as amended: a non-PNG image is never the Image result (an Image result is
\* the first PNG part), and when the reply has no PNG image the result is a
\* text with a line naming the MIME type of each non-PNG image.
C5_PlaceholderUnlessPng ==
    IsSome(normLog.result) =>
        LET c == normLog.content
            r == normLog.result[1].content
        IN  \A i \in NonPngPositions(c) :
                /\ r.type = "Image" =>
                       /\ PngPositions(c) # {}
                       /\ i # Min(PngPositions(c))
                       /\ r.image.source = c[Min(PngPositions(c))].data
                /\ PngPositions(c) = {} =>
                       /\ r.type = "Text"
                       /\ HasLineNaming(r.text, c[i].mime_type)

\* Two non-PNG images of different MIME types and a Text part, no PNG: the
\* text names both types.
C5_Witness ==
    /\ IsSome(normLog.result)
    /\ PngPositions(normLog.content) = {}
    /\ \E i \in NonPngPositions(normLog.content), j \in NonPngPositions(normLog.content) :
           normLog.content[i].mime_type # normLog.content[j].mime_type
    /\ \E i \in 1..Len(normLog.content) : normLog.content[i].type = "Text"
    /\ normLog.result[1].content.type = "Text"
    /\ HasLineNaming(normLog.result[1].content.text, ImageJpeg)
    /\ HasLineNaming(normLog.result[1].content.text, ImagePngUpper)

(***************************************************************************)
(* Properties of input_schema (SpecSchema).                                *)
(***************************************************************************)
EmptyObject == [t |-> "Object", map |-> <<>>]

\* C10: the accessor gives the canonical schema when the declared schema is
\* null or an empty object; otherwise it gives the declared schema as adapted
\* to the format; and it fails, with the adaptation's failure and no schema,
\* exactly when the adaptation fails.
C10_SchemaAccessor ==
    IsSome(schemaLog.result) =>
        LET d == schemaLog.declared
            r == schemaLog.result[1]
            adapted == adapt_schema_to_format(d, schemaLog.format)
        IN  /\ d \in {JsonNull, EmptyObject} =>
                r = [ok |-> TRUE,
                     value |-> [t |-> "Object",
                                map |-> [k \in {"type", "properties"} |->
                                            IF k = "type" THEN [t |-> "String", s |-> "object"]
                                            ELSE [t |-> "Array", items |-> <<>>]]]]
            /\ (d \notin {JsonNull, EmptyObject} /\ adapted.ok) =>
                r = [ok |-> TRUE, value |-> adapted.value]
            /\ ~r.ok <=> ~adapted.ok
            /\ ~r.ok => r = adapted

\* The empty object was declared and the canonical schema returned.
C10_Witness ==
    /\ schemaLog.declared = EmptyObject
    /\ IsSome(schemaLog.result)
    /\ schemaLog.result[1].ok
    /\ DOMAIN schemaLog.result[1].value.map = {"type", "properties"}

(***************************************************************************)
(* Properties of run (Spec).                                               *)
(***************************************************************************)
NotFound == [ok |-> FALSE, error |-> "Context server not found"]
NotInitialized == [ok |-> FALSE, error |-> "Context server not initialized"]

\* C6: an invocation issued while the registry holds no running connection for
\* the adapter's server is failed with "server not found" from the moment run
\* returns (the task returned is ready), and stays so: no handle is held, no
\* request is or was sent, whatever the registry does afterwards.
C6_NotFoundImmediate ==
    \A i \in Invocations :
        (inv[i].pc # "idle" /\ inv[i].at_call = 0) =>
            /\ inv[i].pc = "failed"
            /\ inv[i].ready
            /\ inv[i].result = Some(NotFound)
            /\ inv[i].server = None
            /\ inv[i].protocol = None
            /\ inv[i].call = None
            /\ inv[i].dispatches = 0

\* An invocation failed with "server not found", and its server is now running
\* and initialized: the invocation has sent nothing.
C6_Witness ==
    \E i \in Invocations :
        /\ inv[i].pc = "failed"
        /\ inv[i].at_call = 0
        /\ inv[i].result = Some(NotFound)
        /\ running[inv[i].adapter[1].server_id] # 0
        /\ client[running[inv[i].adapter[1].server_id]]
        /\ inv[i].dispatches = 0

\* C7 as claimed: an invocation issued while the connection in the registry had
\* not completed its initialization is, once its task has run, failed with "not
\* initialized" and has sent no request.
C7_NotInitializedAtCall ==
    \A i \in Invocations :
        (inv[i].client_at_call = Some(FALSE) /\ inv[i].pc # "spawned") =>
            /\ inv[i].pc = "failed"
            /\ inv[i].result = Some(NotInitialized)
            /\ inv[i].dispatches = 0

\* C7 as amended: an invocation whose server had a connection in the registry,
\* and whose task found that connection without a client as it was first polled
\* (its initialization not completed), is failed with "not initialized", which
\* is not the "not found" failure, and has sent no request.
C7_NotInitialized ==
    \A i \in Invocations :
        inv[i].client_at_poll = Some(FALSE) =>
            /\ inv[i].at_call # 0
            /\ inv[i].server = Some(inv[i].at_call)
            /\ inv[i].pc = "failed"
            /\ inv[i].result = Some(NotInitialized)
            /\ inv[i].result # Some(NotFound)
            /\ ~inv[i].ready
            /\ inv[i].call = None
            /\ inv[i].dispatches = 0

\* An invocation failed with "not initialized" while the connection it looked
\* up is still the one in the registry, not initialized.
C7_Witness ==
    \E i \in Invocations :
        /\ inv[i].client_at_poll = Some(FALSE)
        /\ inv[i].pc = "failed"
        /\ inv[i].result = Some(NotInitialized)
        /\ running[inv[i].adapter[1].server_id] = inv[i].at_call
        /\ inv[i].at_call # 0
        /\ ~client[inv[i].at_call]

\* C8: when run_tool returned a failure, the invocation is failed with that
\* very failure; no content is returned, and the one request sent is the only
\* one.
C8_RemoteFailurePassedThrough ==
    \A i \in Invocations :
        (IsSome(inv[i].response) /\ ~inv[i].response[1].ok) =>
            /\ inv[i].pc = "failed"
            /\ inv[i].result = inv[i].response
            /\ inv[i].result[1].error \in RemoteErrors
            /\ "value" \notin DOMAIN inv[i].result[1]
            /\ inv[i].call = None
            /\ inv[i].dispatches = 1

\* Both invocations were dispatched and failed, each with its own failure of
\* the remote call.
C8_Witness ==
    \E i \in Invocations, j \in Invocations :
        /\ inv[i].response = Some([ok |-> FALSE, error |-> "tool execution failed"])
        /\ inv[j].response = Some([ok |-> FALSE, error |-> "transport closed"])
        /\ inv[i].pc = "failed" /\ inv[i].result = inv[i].response
        /\ inv[j].pc = "failed" /\ inv[j].result = inv[j].response

\* C9: when run_tool returned a reply, whatever its parts, the invocation is
\* succeeded with one content value, a Text or an Image, and an empty output.
C9_ReplyAlwaysSucceeds ==
    \A i \in Invocations :
        (IsSome(inv[i].response) /\ inv[i].response[1].ok) =>
            /\ inv[i].pc = "succeeded"
            /\ IsSome(inv[i].result)
            /\ inv[i].result[1].ok
            /\ inv[i].result[1].value.output = None
            /\ \/ /\ inv[i].result[1].value.content.type = "Text"
                  /\ DOMAIN inv[i].result[1].value.content = {"type", "text"}
               \/ /\ inv[i].result[1].value.content.type = "Image"
                  /\ DOMAIN inv[i].result[1].value.content = {"type", "image"}

\* One invocation got two PNG images and succeeded with an Image; the other
\* got a non-PNG image and a Resource and succeeded with a Text.
C9_Witness ==
    \E i \in Invocations, j \in Invocations :
        /\ inv[i].response = Some(Ok(<<Image(<<"A">>, ImagePng), Image(<<"A">>, ImagePng)>>))
        /\ inv[i].pc = "succeeded"
        /\ inv[i].result[1].value.content.type = "Image"
        /\ inv[j].response = Some(Ok(<<Image(<<"B">>, ImageJpeg), Resource>>))
        /\ inv[j].pc = "succeeded"
        /\ inv[j].result[1].value.content.type = "Text"

\* C11 as claimed: the outcome of an invocation follows from the registry as it
\* was when run was called: no connection gives "not found", a connection not
\* initialized gives "not initialized", an initialized one has the call sent to
\* it, and no other connection is ever used.
C11_OutcomeByRegistryAtCall ==
    \A i \in Invocations :
        inv[i].pc # "idle" =>
            /\ inv[i].at_call = 0 => inv[i].result = Some(NotFound)
            /\ (inv[i].client_at_call = Some(FALSE) /\ inv[i].pc # "spawned") =>
                   inv[i].result = Some(NotInitialized)
            /\ (inv[i].client_at_call = Some(TRUE) /\ inv[i].pc # "spawned") =>
                   /\ inv[i].dispatches = 1
                   /\ inv[i].protocol = Some(inv[i].at_call)
            /\ IsSome(inv[i].protocol) => inv[i].protocol = Some(inv[i].at_call)

\* C11 as amended: the handle of an invocation is the connection the registry
\* held for its adapter's server when run was called, whatever earlier
\* invocations obtained; with none the invocation is failed with "not found";
\* with one, the task works on that connection only: it is failed with "not
\* initialized" when the connection has no client as the task is first polled,
\* and its call is sent to that connection when it has one.
C11_FreshLookupEachCall ==
    \A i \in Invocations :
        inv[i].pc # "idle" =>
            /\ inv[i].server = IF inv[i].at_call = 0 THEN None ELSE Some(inv[i].at_call)
            /\ inv[i].at_call = 0 =>
                   /\ inv[i].result = Some(NotFound)
                   /\ inv[i].dispatches = 0
            /\ inv[i].client_at_poll = Some(FALSE) =>
                   /\ inv[i].result = Some(NotInitialized)
                   /\ inv[i].dispatches = 0
            /\ inv[i].client_at_poll = Some(TRUE) =>
                   /\ inv[i].dispatches = 1
                   /\ inv[i].protocol = Some(inv[i].at_call)
                   /\ inv[i].result # Some(NotFound)
                   /\ inv[i].result # Some(NotInitialized)
            /\ IsSome(inv[i].protocol) => inv[i].protocol = Some(inv[i].at_call)
            /\ IsSome(inv[i].call) => inv[i].call[1].connection = inv[i].at_call

\* Two invocations of the same adapter around a restart of its server: the
\* first had its call sent to the first connection, the second, issued after
\* the server was replaced, to the second connection.
C11_Witness ==
    \E i \in Invocations, j \in Invocations :
        /\ inv[i].adapter = inv[j].adapter
        /\ IsSome(inv[i].adapter)
        /\ inv[i].protocol = Some(1)
        /\ inv[i].dispatches = 1
        /\ inv[j].at_call = 2
        /\ inv[j].protocol = Some(2)
        /\ inv[j].dispatches = 1
        /\ running[inv[j].adapter[1].server_id] = 2

\* The outcome that the history of a finished invocation h gives: its lookup,
\* the client its task found, and the response to its own call.
OutcomeOfOwnHistory(h) ==
    IF h.at_call = 0 THEN [ok |-> FALSE, error |-> "Context server not found"]
    ELSE IF h.client_at_poll = Some(FALSE)
    THEN [ok |-> FALSE, error |-> "Context server not initialized"]
    ELSE IF ~h.response[1].ok THEN h.response[1]
    ELSE [ok |-> TRUE,
          value |-> [content |-> final_assistant_tool_content(h.response[1].value),
                     output |-> None]]

\* What one step may do to invocation i.  Idle is "idle"; Dispatched, the
\* invocation in flight, is "spawned" (the task not polled yet) and then
\* "dispatched" (the call sent and awaited); a failure known when run returns
\* takes the invocation from idle to failed within the call.
LifecycleStep(i) ==
    LET a == inv[i]
        b == inv'[i]
    IN  /\ a.pc = "idle" => b.pc \in {"idle", "spawned", "failed"}
        /\ a.pc = "spawned" => b.pc \in {"spawned", "dispatched", "failed"}
        /\ a.pc = "dispatched" => b.pc \in {"dispatched", "succeeded", "failed"}
        /\ a.pc \in {"succeeded", "failed"} => b = a
        /\ b.pc = a.pc => b = a
        /\ b.dispatches <= 1
        /\ b.dispatches # a.dispatches =>
               /\ a.pc = "spawned" /\ b.pc = "dispatched"
               /\ b.dispatches = a.dispatches + 1
        /\ b.pc = "dispatched" => b.dispatches = 1 /\ b.result = None
        /\ b.pc \in {"idle", "spawned"} => b.dispatches = 0 /\ b.result = None
        /\ b.pc \in {"succeeded", "failed"} =>
               /\ b.result = Some(OutcomeOfOwnHistory(b))
               /\ b.pc = "succeeded" <=> b.result[1].ok
               /\ b.pc = "succeeded" => b.dispatches = 1

\* C12: every step moves at most one invocation, and moves it along
\* Idle -> Dispatched -> {Succeeded | Failed}: at most one call is sent, a
\* finished invocation never changes again, and its one outcome is the one its
\* own lookup and the response to its own call give, whatever the other
\* invocations do and whatever the order of the responses.
C12_Lifecycle ==
    [][ /\ \A i \in Invocations : LifecycleStep(i)
        /\ \A i \in Invocations, j \in Invocations :
               (inv'[i] # inv[i] /\ inv'[j] # inv[j]) => i = j ]_vars

\* Two invocations of the same tool with their calls sent to the same
\* connection: the one with the greater number has succeeded while the other
\* still awaits its response.
C12_Witness ==
    \E i \in Invocations, j \in Invocations :
        /\ i < j
        /\ inv[i].adapter = inv[j].adapter
        /\ inv[i].pc = "dispatched"
        /\ inv[j].pc = "succeeded"
        /\ inv[i].protocol = inv[j].protocol
        /\ inv[j].result[1].value.content.type = "Image"

====
